---- MODULE Spec2Model ----
(***************************************************************************)
(* Model of the translation job orchestration of electric-translator:     *)
(* the store (api/crud.py, api/models.py), the request handler            *)
(* POST /translate (api/main.py), the Celery tasks of api/tasks.py         *)
(* (process_translation, process_individual_translation, the chord and    *)
(* its callback update_task_status) and the chunker of api/helpers.py.    *)
(*                                                                         *)
(* The handler GET /translate/{task_id} (api/main.py) is one more action.  *)
(*                                                                         *)
(* The tasks modelled are those main.py runs (tasks.py).  Of               *)
(* api/tasks_async.py, which no module imports, only the translation       *)
(* client query_gpt_async is modelled, as a process of its own.            *)
(*                                                                         *)
(* Strings are sequences of naturals: 0 is the space character, every     *)
(* other number is a letter.  A text is modelled by the sequence of       *)
(* sentences spaCy yields for it (doc.sents), each sentence a string.     *)
(***************************************************************************)
EXTENDS Integers, Sequences, FiniteSets, TLC

\* ---------------------------------------------------------------- bounds

\* Number of POST /translate requests of a run.
MaxJobs == 2

\* Longest `languages` list of a request.
MaxLangs == 2

\* Longest text of a request of the orchestration model, in chunks.
MaxChunks == 2

\* Longest sentence sequence given to the chunker alone.
MaxSentences == 45

\* Chunk translation calls of a run, over all its requests.
MaxCalls == 3

\* Number of different answers the translation service may give for the same
\* chunk and language.
NumAnswers == 2

\* ------------------------------------------------------------- constants

\* helpers.py: a group is closed when it holds 20 sentences.
GroupLimit == 20

\* tasks_async.py, query_gpt_async: the attempts of one call, and the seconds
\* slept between two attempts.
Retries == 42

wait_time == 21

SPACE == 0

\* SQL NULL of the nullable column translated_content; no string (all of
\* whose characters are naturals) equals it.
None == << -1 >>

Languages == {"es", "fr"}

LangCode(language) == IF language = "es" THEN 1 ELSE 2

\* ---------------------------------------------------------------- strings

\* " ".join(strs): the strings in order, one space between two neighbours;
\* join[lo, hi] is the join of strs[lo] .. strs[hi].
Join(strs) ==
    LET join[lo \in 1..(Len(strs) + 1), hi \in 0..Len(strs)] ==
            IF lo > hi THEN << >>
            ELSE IF lo = hi THEN strs[lo]
            ELSE join[lo, (lo + hi) \div 2] \o << SPACE >>
                     \o join[(lo + hi) \div 2 + 1, hi]
    IN join[1, Len(strs)]

\* str.split(" "): the pieces of str between single spaces ("" gives [""]).
Split(str) ==
    LET seps == {k \in 1..Len(str) : str[k] = SPACE}
        \* The position of the i-th space; 0 and Len(str) + 1 bound the string.
        Sep(i) == IF i = 0 THEN 0
                  ELSE IF i > Cardinality(seps) THEN Len(str) + 1
                  ELSE CHOOSE k \in seps : Cardinality({m \in seps : m <= k}) = i
    IN [i \in 1..(Cardinality(seps) + 1) |-> SubSeq(str, Sep(i - 1) + 1, Sep(i) - 1)]

\* ---------------------------------------------------------------- chunker

\* doc.sents of nlp(text): the text is kept as its sentence sequence.
Sents(text) == text

\* Mutant of FillGroup: the group is closed one sentence late (> for ==).
FillGroupLate(sents, k, current_group) ==
    LET fill[j \in 1..(Len(sents) + 1), group \in Seq(Seq(Int))] ==
            IF j > Len(sents) \/ Len(group) > GroupLimit THEN group
            ELSE fill[j + 1, Append(group, sents[j])]
    IN fill[k, current_group]

\* The turns of the for loop of split_text_into_sentence_groups from
\* sentence k on, up to the turn whose append brings current_group to 20
\* sentences, or to the end of the sentences: current_group after them.
\* fill[j, group] is the loop at sentence j with current_group = group.
FillGroup(sents, k, current_group) ==
    LET fill[j \in 1..(Len(sents) + 1), group \in Seq(Seq(Int))] ==
            IF j > Len(sents) \/ Len(group) = GroupLimit THEN group
            ELSE fill[j + 1, Append(group, sents[j])]
    IN fill[k, current_group]

RECURSIVE GroupLoop(_, _, _)
\* Mutant of GroupLoop: the `if current_group` after the loop is dropped, so
\* what is left in current_group is appended even when it is empty.
GroupLoopAppendEmpty(sents, k, sentence_groups) ==
    LET current_group == FillGroup(sents, k, << >>) IN
    IF Len(current_group) = GroupLimit
    THEN GroupLoop(sents, k + GroupLimit,
                   Append(sentence_groups, current_group))
    ELSE Append(sentence_groups, current_group)

\* The for loop from sentence k on and the `if current_group` after it,
\* before the groups are joined: a group that reached 20 sentences is
\* appended in the loop, which goes on with an empty current_group; what is
\* left in current_group at the end of the sentences is appended if it is
\* not empty.
GroupLoop(sents, k, sentence_groups) ==
    LET current_group == FillGroup(sents, k, << >>) IN
    IF Len(current_group) = GroupLimit
    THEN GroupLoop(sents, k + GroupLimit,
                   Append(sentence_groups, current_group))
    ELSE IF current_group # << >>
         THEN Append(sentence_groups, current_group)
         ELSE sentence_groups

\* The sentence groups, each still a sequence of sentences.
SentenceGroups(text) == GroupLoop(Sents(text), 1, << >>)

\* Mutant of split_text_into_sentence_groups: the `if current_group` after
\* the loop is forgotten, so a last group of fewer than 20 sentences is lost.
split_without_remainder(text) ==
    LET groups == SentenceGroups(text)
        full == {g \in 1..Len(groups) : Len(groups[g]) = GroupLimit}
    IN [g \in 1..Cardinality(full) |-> Join(groups[g])]

\* split_text_into_sentence_groups: every group joined into one string.
split_text_into_sentence_groups(text) ==
    LET groups == SentenceGroups(text) IN
    [g \in 1..Len(groups) |-> Join(groups[g])]

\* ---------------------------------------------------- translation service

\* translate(chunk, language): what the service answers is outside the
\* program; answer number `answer` keeps the spaces and maps every letter to
\* a letter that tells the language and the answer.
translate(chunk, language, answer) ==
    [k \in 1..Len(chunk) |->
        IF chunk[k] = SPACE THEN SPACE
        ELSE chunk[k] + 100 * (NumAnswers * LangCode(language) + answer)]

\* ------------------------------------------------------------------ state

VARIABLES
    texts,          \* table texts: row id is the index; [text, status]
    translations,   \* table translations: [text_id, language, status, translated_content]
    requests,       \* POST /translate handlers, one per request slot
    process_task,   \* process_translation.delay(text_id), per text id
    chords,         \* chord(group(tasks), final_task), per text id
    workers,        \* process_individual_translation header tasks, per translation id
    text_writes,    \* history: committed writes of texts.status, per text id
    translation_writes, \* history: committed writes of a translation row, per id
    rerun,          \* a further invocation of process_individual_translation
    sentences,      \* chunker alone: the input, as doc.sents yields it
    sentence_groups, \* chunker alone: the list returned, or NotRun
    group_sizes,    \* history: len(current_group) at each join of the chunker
    client,         \* one call of query_gpt_async: its locals and its outcome
    poll,           \* GET /translate/{task_id}: the answer of the last request
    listed,         \* one call of get_translations_for_text and its result
    updated         \* one direct call of an update function of crud.py

vars == << texts, translations, requests, process_task, chords, workers,
           text_writes, translation_writes, rerun, sentences, sentence_groups,
           group_sizes, client, poll, listed, updated >>

store_vars == << texts, translations, requests, process_task, chords, workers,
                 text_writes, translation_writes >>

chunker_vars == << sentences, sentence_groups, group_sizes >>

side_vars == << client, poll, listed, updated >>

TextIds == 1..MaxJobs

TranslationIds == 1..(MaxJobs * MaxLangs)

\* No list of strings: the chunker has not run.
NotRun == << None >>

\* The sentence sequence of a text of n sentences: sentence k is the letter k.
MkText(n) == [k \in 1..n |-> << k >>]

\* Texts of the orchestration model: of 0, 1, .. MaxChunks chunks.
Texts == {MkText(0)} \cup {MkText((c - 1) * GroupLimit + 1) : c \in 1..MaxChunks}

\* The `languages` lists of a request: any list of up to MaxLangs languages.
LanguageLists == UNION {[1..n -> Languages] : n \in 0..MaxLangs}

\* `text` is history: the text the request was made with.
IdleRequest ==
    [pc |-> "idle", text_id |-> 0, text |-> << >>, languages |-> << >>, next |-> 0]

NoCalls == << >>

\* `order` is history: the calls of the invocation in the order they ended.
IdleWorker ==
    [state |-> "none", language |-> "", chunks |-> << >>, calls |-> NoCalls,
     order |-> << >>]

NoChord == [state |-> "none", header |-> << >>]

\* No GET /translate/{task_id} request was answered.
NoPoll == [task_id |-> 0, status |-> "none", id |-> 0, text |-> << >>,
           translations |-> << >>]

\* No call of get_translations_for_text outside the tasks.
NoList == [text_id |-> 0, result |-> << >>]

\* ------------------------------------------------------------------- crud

\* Mutant of create_text: the row is created with the Sub-jobs' word for a
\* finished row.
create_text_complete(text) == Append(texts, [text |-> text, status |-> "complete"])

\* create_text: a new row, status "pending".
create_text(text) == Append(texts, [text |-> text, status |-> "pending"])

\* get_text
get_text(text_id) == texts[text_id]

\* create_translation(TranslationInSchema(text_id, language, status="pending"))
create_translation(text_id, language) ==
    Append(translations,
           [text_id |-> text_id, language |-> language, status |-> "pending",
            translated_content |-> None])

\* get_translation
get_translation(id) == translations[id]

RECURSIVE FilterIds(_, _)
FilterIds(text_id, k) ==
    IF k > Len(translations) THEN << >>
    ELSE IF translations[k].text_id = text_id
         THEN << k >> \o FilterIds(text_id, k + 1)
         ELSE FilterIds(text_id, k + 1)

\* The orders in which a query may give the rows `ids`: the query of
\* get_translations_for_text has no ORDER BY, and SQL leaves the order of its
\* rows to the database.
RowOrders(ids) ==
    {rows \in [1..Len(ids) -> {ids[k] : k \in 1..Len(ids)}] :
        \A a, b \in 1..Len(ids) : rows[a] = rows[b] => a = b}

\* Mutant of get_translations_for_text: the filter on text_id is missing.
get_all_translations(text_id) ==
    RowOrders([k \in 1..Len(translations) |-> k])

\* get_translations_for_text: the lists the call may return, each the ids of
\* the rows of the text (the rows themselves are read through TranslationOut).
\* Rows no UPDATE has rewritten are read in the order of their creation; once
\* one of them was rewritten, the database may give them in any order.
get_translations_for_text(text_id) ==
    LET ids == FilterIds(text_id, 1) IN
    IF \A k \in 1..Len(ids) : translation_writes[ids[k]] = 0
    THEN {ids}
    ELSE RowOrders(ids)

\* TranslationOutSchema(**t.__dict__): the copy of a row a list holds.
TranslationOut(id) ==
    [id |-> id, text_id |-> translations[id].text_id,
     language |-> translations[id].language, status |-> translations[id].status,
     translated_content |-> translations[id].translated_content]

\* Mutant of update_text_status: the row is replaced by a new one that holds
\* the status only.
update_text_status_new_row(text_id, new_status) ==
    IF text_id \in DOMAIN texts
    THEN [texts EXCEPT ![text_id] = [text |-> << >>, status |-> new_status]]
    ELSE texts

\* update_text_status: the table after the call (unchanged for a missing id).
update_text_status(text_id, new_status) ==
    IF text_id \in DOMAIN texts
    THEN [texts EXCEPT ![text_id].status = new_status]
    ELSE texts

\* Mutant of update_translation_fields: the rows are selected by the text of
\* row `id`, so every translation of that text is written.
update_translation_fields_of_text(id, status, translated_content) ==
    IF id \in DOMAIN translations
    THEN [t \in DOMAIN translations |->
            IF translations[t].text_id = translations[id].text_id
            THEN [translations[t] EXCEPT !.status = status,
                                         !.translated_content = translated_content]
            ELSE translations[t]]
    ELSE translations

\* update_translation_fields: the table after the call.
update_translation_fields(id, status, translated_content) ==
    IF id \in DOMAIN translations
    THEN [translations EXCEPT ![id].status = status,
                              ![id].translated_content = translated_content]
    ELSE translations

\* ------------------------------------------------------ POST /translate

\* The chunk translation calls a request asks for.
CallsOf(text, languages) ==
    Len(languages) * Len(split_text_into_sentence_groups(text))

RECURSIVE CallsRequested(_)
\* The chunk translation calls the requests 1..r ask for.
CallsRequested(r) ==
    IF r = 0 THEN 0
    ELSE CallsRequested(r - 1)
         + (IF requests[r].pc = "idle" THEN 0
            ELSE CallsOf(texts[requests[r].text_id].text, requests[r].languages))

\* translate (main.py), first commit of create_translation_task: create_text.
\* The request slots are used in order (they are interchangeable), and a
\* request is made only while the run stays within MaxCalls.
TranslateCreateText(r, text, languages) ==
    /\ requests[r].pc = "idle"
    /\ \A q \in 1..(r - 1) : requests[q].pc # "idle"
    /\ CallsRequested(MaxJobs) + CallsOf(text, languages) <= MaxCalls
    /\ texts' = create_text(text)
    /\ requests' = [requests EXCEPT ![r] =
                        [pc |-> "creating", text_id |-> Len(texts) + 1,
                         text |-> text, languages |-> languages, next |-> 1]]
    /\ UNCHANGED << translations, process_task, chords, workers,
                    text_writes, translation_writes, rerun, chunker_vars, side_vars >>

\* One turn of the loop of create_translation_task: create_translation.
TranslateCreateTranslation(r) ==
    LET req == requests[r] IN
    /\ req.pc = "creating"
    /\ req.next <= Len(req.languages)
    /\ translations' = create_translation(req.text_id, req.languages[req.next])
    /\ requests' = [requests EXCEPT ![r].next = req.next + 1]
    /\ UNCHANGED << texts, process_task, chords, workers,
                    text_writes, translation_writes, rerun, chunker_vars, side_vars >>

\* Mutant of TranslateDelay: the task is sent from inside the loop of
\* create_translation_task, before every translation row is created.
TranslateDelayEarly(r) ==
    LET req == requests[r] IN
    /\ req.pc = "creating"
    /\ process_task' = [process_task EXCEPT ![req.text_id] = "queued"]
    /\ requests' = [requests EXCEPT ![r].pc = "done"]
    /\ UNCHANGED << texts, translations, chords, workers,
                    text_writes, translation_writes, rerun, chunker_vars, side_vars >>

\* After the loop: process_translation.delay(text.id), and the answer.
TranslateDelay(r) ==
    LET req == requests[r] IN
    /\ req.pc = "creating"
    /\ req.next > Len(req.languages)
    /\ process_task' = [process_task EXCEPT ![req.text_id] = "queued"]
    /\ requests' = [requests EXCEPT ![r].pc = "done"]
    /\ UNCHANGED << texts, translations, chords, workers,
                    text_writes, translation_writes, rerun, chunker_vars, side_vars >>

\* ------------------------------------------------------------ tasks.py

\* The header of a chord: one task per entry of `rows`, kept here in the
\* order of the translation ids (Celery runs the tasks of a group
\* independently of their place in it).
Header(rows) == SortSeq(rows, LAMBDA a, b : a < b)

\* process_translation: reads the translations of the text and sends the
\* chord: one header task per translation, update_task_status as its body.
process_translation(text_id) ==
    \E rows \in get_translations_for_text(text_id) :
    LET header == Header(rows) IN
    /\ process_task[text_id] = "queued"
    /\ process_task' = [process_task EXCEPT ![text_id] = "done"]
    /\ chords' = [chords EXCEPT ![text_id] = [state |-> "sent", header |-> header]]
    /\ workers' = [t \in TranslationIds |->
                      IF \E k \in 1..Len(header) : header[k] = t
                      THEN [workers[t] EXCEPT !.state = "queued"]
                      ELSE workers[t]]
    /\ UNCHANGED << texts, translations, requests,
                    text_writes, translation_writes, rerun, chunker_vars, side_vars >>

\* The start of an invocation of process_individual_translation, up to the
\* submission of every chunk to the executor (executor.map submits them all
\* before it yields a result; a text of up to MaxChunks chunks has fewer
\* chunks than the executor has threads, so every call is in flight then).
StartedWorker(translation_id) ==
    LET translation == get_translation(translation_id)
        text == get_text(translation.text_id)
        chunks == split_text_into_sentence_groups(text.text)
    IN [state |-> "running", language |-> translation.language, chunks |-> chunks,
        calls |-> [c \in 1..Len(chunks) |-> [st |-> "inflight", result |-> None]],
        order |-> << >>]

\* translate_chunk returns in its thread.
CallReturned(w, c, answer) ==
    [w EXCEPT !.calls[c] =
        [st |-> "returned", result |-> translate(w.chunks[c], w.language, answer)],
              !.order = Append(@, c)]

\* translate_chunk raises in its thread.
CallRaised(w, c) ==
    [w EXCEPT !.calls[c] = [st |-> "raised", result |-> None],
              !.order = Append(@, c)]

\* Mutant of AllEnded: the worker goes on as soon as one call has ended.
AnyEnded(w) == \E c \in 1..Len(w.calls) : w.calls[c].st # "inflight"

\* Every call of the invocation has ended (the with block of the executor
\* is left only then).
AllEnded(w) == \A c \in 1..Len(w.calls) : w.calls[c].st # "inflight"

\* list(executor.map(...)) raises when one of the calls has raised.
AnyRaised(w) == \E c \in 1..Len(w.calls) : w.calls[c].st = "raised"

\* Mutant of translated_sentences: the results in the order the calls ended
\* (as_completed for map).
translated_sentences_as_completed(w) ==
    [k \in 1..Len(w.order) |-> w.calls[w.order[k]].result]

\* translated_sentences: the results in the order of the chunks.
translated_sentences(w) == [c \in 1..Len(w.calls) |-> w.calls[c].result]

\* translated_text = " ".join(translated_sentences)
translated_text(w) == Join(translated_sentences(w))

WorkerStart(t) ==
    /\ workers[t].state = "queued"
    /\ workers' = [workers EXCEPT ![t] = StartedWorker(t)]
    /\ UNCHANGED << texts, translations, requests, process_task, chords,
                    text_writes, translation_writes, rerun, chunker_vars, side_vars >>

ChunkReturn(t, c, answer) ==
    /\ workers[t].state = "running"
    /\ c \in 1..Len(workers[t].calls)
    /\ workers[t].calls[c].st = "inflight"
    /\ workers' = [workers EXCEPT ![t] = CallReturned(workers[t], c, answer)]
    /\ UNCHANGED << texts, translations, requests, process_task, chords,
                    text_writes, translation_writes, rerun, chunker_vars, side_vars >>

ChunkRaise(t, c) ==
    /\ workers[t].state = "running"
    /\ c \in 1..Len(workers[t].calls)
    /\ workers[t].calls[c].st = "inflight"
    /\ workers' = [workers EXCEPT ![t] = CallRaised(workers[t], c)]
    /\ UNCHANGED << texts, translations, requests, process_task, chords,
                    text_writes, translation_writes, rerun, chunker_vars, side_vars >>

\* The end of process_individual_translation when no call raised: the join
\* and the one write, update_translation_fields.
WorkerComplete(t) ==
    /\ workers[t].state = "running"
    /\ AllEnded(workers[t])
    /\ ~AnyRaised(workers[t])
    /\ translations' = update_translation_fields(t, "complete",
                                                 translated_text(workers[t]))
    /\ translation_writes' = [translation_writes EXCEPT ![t] = @ + 1]
    /\ workers' = [workers EXCEPT ![t].state = "SUCCESS"]
    /\ UNCHANGED << texts, requests, process_task, chords,
                    text_writes, rerun, chunker_vars, side_vars >>

\* Mutant of WorkerFail: a running worker is also ended when a worker of
\* another translation of the same text has failed.
WorkerFailWithSibling(t) ==
    /\ workers[t].state = "running"
    /\ \/ AllEnded(workers[t]) /\ AnyRaised(workers[t])
       \/ \E u \in DOMAIN translations :
             /\ u # t
             /\ translations[u].text_id = translations[t].text_id
             /\ workers[u].state = "FAILURE"
    /\ workers' = [workers EXCEPT ![t].state = "FAILURE"]
    /\ UNCHANGED << texts, translations, requests, process_task, chords,
                    text_writes, translation_writes, rerun, chunker_vars, side_vars >>

\* The results of the calls of a worker that returned, in chunk order.
ReturnedResults(w) ==
    LET returned == {c \in 1..Len(w.calls) : w.calls[c].st = "returned"}
        nth[k \in 0..Len(w.calls)] ==
            IF k = 0 THEN 0
            ELSE CHOOSE c \in returned : c > nth[k - 1] /\ \A d \in returned : d > nth[k - 1] => c <= d
    IN [k \in 1..Cardinality(returned) |-> w.calls[nth[k]].result]

\* Mutant of WorkerFail: the exception is caught and the row is written with
\* the join of the results of the calls that returned.
WorkerFailWritesPartial(t) ==
    /\ workers[t].state = "running"
    /\ AllEnded(workers[t])
    /\ AnyRaised(workers[t])
    /\ translations' = update_translation_fields(t, "complete",
                                                 Join(ReturnedResults(workers[t])))
    /\ translation_writes' = [translation_writes EXCEPT ![t] = @ + 1]
    /\ workers' = [workers EXCEPT ![t].state = "FAILURE"]
    /\ UNCHANGED << texts, requests, process_task, chords,
                    text_writes, rerun, chunker_vars, side_vars >>

\* The end of process_individual_translation when a call raised: the
\* exception leaves the task, which ends in state FAILURE with no write.
WorkerFail(t) ==
    /\ workers[t].state = "running"
    /\ AllEnded(workers[t])
    /\ AnyRaised(workers[t])
    /\ workers' = [workers EXCEPT ![t].state = "FAILURE"]
    /\ UNCHANGED << texts, translations, requests, process_task, chords,
                    text_writes, translation_writes, rerun, chunker_vars, side_vars >>

\* Every header task of the chord has ended: Celery decides about the body
\* only then.
HeaderReady(chord) ==
    \A k \in 1..Len(chord.header) :
        workers[chord.header[k]].state \in {"SUCCESS", "FAILURE"}

\* Mutant of HeaderSucceeded: one successful header task is enough.
HeaderAnySucceeded(chord) ==
    \E k \in 1..Len(chord.header) : workers[chord.header[k]].state = "SUCCESS"

\* Every header task of the chord has succeeded.
HeaderSucceeded(chord) ==
    \A k \in 1..Len(chord.header) : workers[chord.header[k]].state = "SUCCESS"

\* update_task_status, the body of the chord: Celery runs it once every
\* header task has succeeded.
update_task_status(text_id) ==
    /\ chords[text_id].state = "sent"
    /\ HeaderReady(chords[text_id])
    /\ HeaderSucceeded(chords[text_id])
    /\ texts' = update_text_status(text_id, "completed")
    /\ text_writes' = [text_writes EXCEPT ![text_id] = @ + 1]
    /\ chords' = [chords EXCEPT ![text_id].state = "called"]
    /\ UNCHANGED << translations, requests, process_task, workers,
                    translation_writes, rerun, chunker_vars, side_vars >>

\* Mutant of ChordError: the chord is failed as soon as one header task has
\* failed.
ChordErrorAtFirstFailure(text_id) ==
    /\ chords[text_id].state = "sent"
    /\ \E k \in 1..Len(chords[text_id].header) :
          workers[chords[text_id].header[k]].state = "FAILURE"
    /\ chords' = [chords EXCEPT ![text_id].state = "failed"]
    /\ UNCHANGED << texts, translations, requests, process_task, workers,
                    text_writes, translation_writes, rerun, chunker_vars, side_vars >>

\* Mutant of ChordError: the body is run although a header task has failed,
\* so the text is completed once every header task has ended.
ChordErrorRunsBody(text_id) ==
    /\ chords[text_id].state = "sent"
    /\ HeaderReady(chords[text_id])
    /\ ~HeaderSucceeded(chords[text_id])
    /\ chords' = [chords EXCEPT ![text_id].state = "failed"]
    /\ texts' = update_text_status(text_id, "completed")
    /\ text_writes' = [text_writes EXCEPT ![text_id] = @ + 1]
    /\ UNCHANGED << translations, requests, process_task, workers,
                    translation_writes, rerun, chunker_vars, side_vars >>

\* A header task has failed: Celery marks the body failed (ChordError) and
\* never runs it.
ChordError(text_id) ==
    /\ chords[text_id].state = "sent"
    /\ HeaderReady(chords[text_id])
    /\ ~HeaderSucceeded(chords[text_id])
    /\ chords' = [chords EXCEPT ![text_id].state = "failed"]
    /\ UNCHANGED << texts, translations, requests, process_task, workers,
                    text_writes, translation_writes, rerun, chunker_vars, side_vars >>

\* ------------------------------------------------- GET /translate/{task_id}

\* TextTranslationsSchema(id=task.id, text=task.text, translations=translations)
TextTranslations(task_id, rows) ==
    [task_id |-> task_id, status |-> "result", id |-> task_id,
     text |-> get_text(task_id).text,
     translations |-> [k \in 1..Len(rows) |-> TranslationOut(rows[k])]]

\* The answer {"status": "in progress"}.
InProgress(task_id) ==
    [task_id |-> task_id, status |-> "in progress", id |-> 0, text |-> << >>,
     translations |-> << >>]

\* get_text returned None and task.status raises: the request fails.
PollError(task_id) ==
    [task_id |-> task_id, status |-> "error", id |-> 0, text |-> << >>,
     translations |-> << >>]

\* Mutant of get_translate: the translations are read without the filter on
\* the task's id.
get_translate_unfiltered(task_id) ==
    /\ poll = NoPoll
    /\ IF task_id \notin DOMAIN texts
       THEN poll' = PollError(task_id)
       ELSE IF get_text(task_id).status = "pending"
       THEN poll' = InProgress(task_id)
       ELSE \E rows \in get_all_translations(task_id) :
               poll' = TextTranslations(task_id, rows)
    /\ UNCHANGED << store_vars, rerun, chunker_vars, client, listed, updated >>

\* get_translate (main.py): one GET request of the run, answered at any time.
get_translate(task_id) ==
    /\ poll = NoPoll
    /\ IF task_id \notin DOMAIN texts
       THEN poll' = PollError(task_id)
       ELSE IF get_text(task_id).status = "pending"
       THEN poll' = InProgress(task_id)
       ELSE \E rows \in get_translations_for_text(task_id) :
               poll' = TextTranslations(task_id, rows)
    /\ UNCHANGED << store_vars, rerun, chunker_vars, client, listed, updated >>

\* One call of get_translations_for_text(text_id), at any time of the run.
ListSubJobs(text_id) ==
    /\ listed = NoList
    /\ \E rows \in get_translations_for_text(text_id) :
          listed' = [text_id |-> text_id, result |-> rows]
    /\ UNCHANGED << store_vars, rerun, chunker_vars, client, poll, updated >>

\* --------------------------------------- crud.py, the update functions

\* No value: what a function returns when it returns None.
NoValue ==
    [id |-> 0, text_id |-> 0, language |-> "", status |-> "",
     translated_content |-> None]

\* No direct call of an update function.
NoUpdate ==
    [call |-> "none", id |-> 0, status |-> "", translated_content |-> None,
     value |-> NoValue]

\* The statuses and the contents a direct call is made with.
UpdateStatuses == {"pending", "complete", "completed"}

UpdateContents == {<< >>, << 1 >>, << 1, SPACE, 2 >>}

\* What update_text_status returns: None on both paths (the found path has
\* no return statement).
update_text_status_returns(text_id, table) == NoValue

\* Mutant of update_translation_fields_returns: the schema is built from the
\* row as it was read, before the assignments.
update_translation_fields_returns_stale(id, table) ==
    IF id \in DOMAIN table
    THEN [id |-> id, text_id |-> translations[id].text_id,
          language |-> translations[id].language,
          status |-> translations[id].status,
          translated_content |-> translations[id].translated_content]
    ELSE NoValue

\* What update_translation_fields returns, `table` being the table after the
\* commit: TranslationOutSchema(**db_translation.__dict__) of the refreshed
\* row, or None.
update_translation_fields_returns(id, table) ==
    IF id \in DOMAIN table
    THEN [id |-> id, text_id |-> table[id].text_id,
          language |-> table[id].language, status |-> table[id].status,
          translated_content |-> table[id].translated_content]
    ELSE NoValue

\* One direct call update_text_status(text_id, new_status).
UpdateTextStatus(text_id, new_status) ==
    /\ updated = NoUpdate
    /\ texts' = update_text_status(text_id, new_status)
    /\ text_writes' = IF text_id \in DOMAIN texts
                       THEN [text_writes EXCEPT ![text_id] = @ + 1]
                       ELSE text_writes
    /\ updated' = [call |-> "update_text_status", id |-> text_id,
                   status |-> new_status, translated_content |-> None,
                   value |-> update_text_status_returns(text_id, texts')]
    /\ UNCHANGED << translations, requests, process_task, chords, workers,
                    translation_writes, rerun, chunker_vars, client, poll,
                    listed >>

\* One direct call update_translation_fields(id, status, translated_content).
UpdateTranslationFields(id, status, translated_content) ==
    /\ updated = NoUpdate
    /\ translations' = update_translation_fields(id, status, translated_content)
    /\ translation_writes' = IF id \in DOMAIN translations
                              THEN [translation_writes EXCEPT ![id] = @ + 1]
                              ELSE translation_writes
    /\ updated' = [call |-> "update_translation_fields", id |-> id,
                   status |-> status, translated_content |-> translated_content,
                   value |-> update_translation_fields_returns(id, translations')]
    /\ UNCHANGED << texts, requests, process_task, chords, workers,
                    text_writes, rerun, chunker_vars, client, poll, listed >>

\* ------------------------------------------- tasks_async.py, query_gpt_async

\* No call of query_gpt_async.
NoClient ==
    [pc |-> "none", retries |-> 0, posts |-> 0, failures |-> 0, sleeps |-> 0,
     slept |-> 0, last |-> "none", result |-> None]

\* The call is made: retries = 42, and the loop is entered.  `posts`,
\* `failures`, `sleeps`, `slept` (seconds) and `last` (the kind of the last
\* failed attempt) are history.
StartedClient ==
    [pc |-> "while", retries |-> Retries, posts |-> 0, failures |-> 0,
     sleeps |-> 0, slept |-> 0, last |-> "none", result |-> None]

\* The content of a response of the service.
Content(answer) == << answer >>

\* Mutant of AfterReadTimeout: the timeout branch forgets retries -= 1.
AfterReadTimeoutNoDecrement(c) ==
    [c EXCEPT !.failures = @ + 1, !.last = "timeout",
              !.pc = IF c.retries = 0 THEN "ended" ELSE "sleep",
              !.sleeps = IF c.retries = 0 THEN @ ELSE @ + 1]

\* Mutant of AfterReadTimeout: the timeout branch raises like the status
\* branch when no attempt is left.
AfterReadTimeoutRaise(c) ==
    [c EXCEPT !.retries = @ - 1, !.failures = @ + 1, !.last = "timeout",
              !.pc = IF c.retries - 1 = 0 THEN "raised" ELSE "sleep",
              !.sleeps = IF c.retries - 1 = 0 THEN @ ELSE @ + 1]

\* except httpx.HTTPStatusError: retries -= 1, then raise when no attempt is
\* left, else asyncio.sleep(wait_time).
AfterHTTPStatusError(c) ==
    [c EXCEPT !.retries = @ - 1, !.failures = @ + 1, !.last = "status",
              !.pc = IF c.retries - 1 = 0 THEN "raised" ELSE "sleep",
              !.sleeps = IF c.retries - 1 = 0 THEN @ ELSE @ + 1]

\* except httpx.ReadTimeout: retries -= 1, then break when no attempt is
\* left (the function ends and returns None), else asyncio.sleep(wait_time).
AfterReadTimeout(c) ==
    [c EXCEPT !.retries = @ - 1, !.failures = @ + 1, !.last = "timeout",
              !.pc = IF c.retries - 1 = 0 THEN "ended" ELSE "sleep",
              !.sleeps = IF c.retries - 1 = 0 THEN @ ELSE @ + 1]

\* while retries > 0: client.post(...) is sent.
ClientPost ==
    /\ client.pc = "while"
    /\ client.retries > 0
    /\ client' = [client EXCEPT !.pc = "post", !.posts = @ + 1]
    /\ UNCHANGED << store_vars, rerun, chunker_vars, poll, listed, updated >>

\* The response has a success status: its content is returned.
ClientReturn(answer) ==
    /\ client.pc = "post"
    /\ client' = [client EXCEPT !.pc = "returned", !.result = Content(answer)]
    /\ UNCHANGED << store_vars, rerun, chunker_vars, poll, listed, updated >>

\* The response has an error status: raise_for_status raises.
ClientHTTPStatusError ==
    /\ client.pc = "post"
    /\ client' = AfterHTTPStatusError(client)
    /\ UNCHANGED << store_vars, rerun, chunker_vars, poll, listed, updated >>

\* No response within timeout=48.
ClientReadTimeout ==
    /\ client.pc = "post"
    /\ client' = AfterReadTimeout(client)
    /\ UNCHANGED << store_vars, rerun, chunker_vars, poll, listed, updated >>

\* Any other exception of the attempt (no connection, a response without
\* choices): no except clause catches it and it leaves the call.
ClientOtherError ==
    /\ client.pc = "post"
    /\ client' = [client EXCEPT !.pc = "raised", !.failures = @ + 1,
                                !.last = "other"]
    /\ UNCHANGED << store_vars, rerun, chunker_vars, poll, listed, updated >>

\* asyncio.sleep(wait_time) is over: back to the loop test.
ClientWake ==
    /\ client.pc = "sleep"
    /\ client' = [client EXCEPT !.pc = "while", !.slept = @ + wait_time]
    /\ UNCHANGED << store_vars, rerun, chunker_vars, poll, listed, updated >>

\* ---------------------------------------------------------- specification

IdleChunker ==
    /\ sentences = << >>
    /\ sentence_groups = NotRun
    /\ group_sizes = << >>

\* `before` is history: the row as it was when the invocation started.
NoRerun == [id |-> 0, before |-> << >>, worker |-> IdleWorker]

IdleSide ==
    /\ client = NoClient
    /\ poll = NoPoll
    /\ listed = NoList
    /\ updated = NoUpdate

Init ==
    /\ IdleSide
    /\ texts = << >>
    /\ translations = << >>
    /\ requests = [r \in 1..MaxJobs |-> IdleRequest]
    /\ process_task = [j \in TextIds |-> "none"]
    /\ chords = [j \in TextIds |-> NoChord]
    /\ workers = [t \in TranslationIds |-> IdleWorker]
    /\ text_writes = [j \in TextIds |-> 0]
    /\ translation_writes = [t \in TranslationIds |-> 0]
    /\ rerun = NoRerun
    /\ IdleChunker

Next ==
    \/ \E r \in 1..MaxJobs, text \in Texts, languages \in LanguageLists :
          TranslateCreateText(r, text, languages)
    \/ \E r \in 1..MaxJobs : TranslateCreateTranslation(r)
    \/ \E r \in 1..MaxJobs : TranslateDelay(r)
    \/ \E j \in TextIds : process_translation(j)
    \/ \E t \in TranslationIds : WorkerStart(t)
    \/ \E t \in TranslationIds, c \in 1..MaxChunks, answer \in 1..NumAnswers :
          ChunkReturn(t, c, answer)
    \/ \E t \in TranslationIds, c \in 1..MaxChunks : ChunkRaise(t, c)
    \/ \E t \in TranslationIds : WorkerComplete(t)
    \/ \E t \in TranslationIds : WorkerFail(t)
    \/ \E j \in TextIds : update_task_status(j)
    \/ \E j \in TextIds : ChordError(j)

Spec == Init /\ [][Next]_vars

\* The steps of a run of one request.
NextOneJob ==
    \/ \E text \in Texts, languages \in LanguageLists :
          TranslateCreateText(1, text, languages)
    \/ TranslateCreateTranslation(1)
    \/ TranslateDelay(1)
    \/ process_translation(1)
    \/ \E t \in TranslationIds : WorkerStart(t)
    \/ \E t \in TranslationIds, c \in 1..MaxChunks, answer \in 1..NumAnswers :
          ChunkReturn(t, c, answer)
    \/ \E t \in TranslationIds, c \in 1..MaxChunks : ChunkRaise(t, c)
    \/ \E t \in TranslationIds : WorkerComplete(t)
    \/ \E t \in TranslationIds : WorkerFail(t)
    \/ update_task_status(1)
    \/ ChordError(1)

\* ------------------------------------------ one request of a short text

\* The texts of fewer than GroupLimit sentences, the empty text included.
SmallTexts == {MkText(n) : n \in 0..(GroupLimit - 1)}

\* The steps of a run of one request whose text is short.
NextSmall ==
    \/ \E text \in SmallTexts, languages \in LanguageLists :
          TranslateCreateText(1, text, languages)
    \/ TranslateCreateTranslation(1)
    \/ TranslateDelay(1)
    \/ process_translation(1)
    \/ \E t \in TranslationIds : WorkerStart(t)
    \/ \E t \in TranslationIds, c \in 1..MaxChunks, answer \in 1..NumAnswers :
          ChunkReturn(t, c, answer)
    \/ \E t \in TranslationIds, c \in 1..MaxChunks : ChunkRaise(t, c)
    \/ \E t \in TranslationIds : WorkerComplete(t)
    \/ \E t \in TranslationIds : WorkerFail(t)
    \/ update_task_status(1)
    \/ ChordError(1)

SpecSmall == Init /\ [][NextSmall]_vars

\* ------------------------------------------------------ the chunker alone

\* A sentence sequence of n sentences: sentence k is the letter k, and the
\* sentence at position `spaced` (if any) is the two words "k k".
MkSentences(n, spaced) ==
    [k \in 1..n |-> IF k = spaced THEN << k, SPACE, k >> ELSE << k >>]

ChunkerInputs == {MkSentences(n, spaced) : n \in 0..MaxSentences, spaced \in 0..MaxSentences}

InitChunker ==
    /\ IdleSide
    /\ texts = << >>
    /\ translations = << >>
    /\ requests = [r \in 1..MaxJobs |-> IdleRequest]
    /\ process_task = [j \in TextIds |-> "none"]
    /\ chords = [j \in TextIds |-> NoChord]
    /\ workers = [t \in TranslationIds |-> IdleWorker]
    /\ text_writes = [j \in TextIds |-> 0]
    /\ translation_writes = [t \in TranslationIds |-> 0]
    /\ rerun = NoRerun
    /\ sentences \in ChunkerInputs
    /\ sentence_groups = NotRun
    /\ group_sizes = << >>

\* One call of split_text_into_sentence_groups on the input.
RunChunker ==
    /\ sentence_groups = NotRun
    /\ sentence_groups' = split_text_into_sentence_groups(sentences)
    /\ group_sizes' = [g \in 1..Len(SentenceGroups(sentences)) |->
                          Len(SentenceGroups(sentences)[g])]
    /\ UNCHANGED << store_vars, rerun, sentences, side_vars >>

NextChunker == RunChunker

SpecChunker == InitChunker /\ [][NextChunker]_vars

\* ------------------------------------------------ the run and one GET

\* The run of the requests and one GET /translate/{task_id} request.
NextPoll ==
    \/ Next
    \/ \E task_id \in TextIds : get_translate(task_id)

SpecPoll == Init /\ [][NextPoll]_vars

\* The run of the requests and one call of get_translations_for_text.
NextList ==
    \/ Next
    \/ \E text_id \in TextIds : ListSubJobs(text_id)

SpecList == Init /\ [][NextList]_vars

\* --------------------------------- the requests and one update call

\* The requests of a run, which fill the store, and one direct call of
\* update_text_status or update_translation_fields with any id, one that is
\* not in the store included.
NextUpdate ==
    \/ \E r \in 1..MaxJobs, text \in Texts, languages \in LanguageLists :
          TranslateCreateText(r, text, languages)
    \/ \E r \in 1..MaxJobs : TranslateCreateTranslation(r)
    \/ \E r \in 1..MaxJobs : TranslateDelay(r)
    \/ \E text_id \in 0..(MaxJobs + 1), new_status \in UpdateStatuses :
          UpdateTextStatus(text_id, new_status)
    \/ \E id \in 0..(MaxJobs * MaxLangs + 1), status \in UpdateStatuses,
          translated_content \in UpdateContents :
          UpdateTranslationFields(id, status, translated_content)

SpecUpdate == Init /\ [][NextUpdate]_vars

\* ------------------------------------------- one call of query_gpt_async

InitClient ==
    /\ client = StartedClient
    /\ poll = NoPoll
    /\ listed = NoList
    /\ updated = NoUpdate
    /\ texts = << >>
    /\ translations = << >>
    /\ requests = [r \in 1..MaxJobs |-> IdleRequest]
    /\ process_task = [j \in TextIds |-> "none"]
    /\ chords = [j \in TextIds |-> NoChord]
    /\ workers = [t \in TranslationIds |-> IdleWorker]
    /\ text_writes = [j \in TextIds |-> 0]
    /\ translation_writes = [t \in TranslationIds |-> 0]
    /\ rerun = NoRerun
    /\ IdleChunker

NextClient ==
    \/ ClientPost
    \/ \E answer \in 1..NumAnswers : ClientReturn(answer)
    \/ ClientHTTPStatusError
    \/ ClientReadTimeout
    \/ ClientOtherError
    \/ ClientWake

\* One call of query_gpt_async.  Every attempt ends (with a response, or
\* with the timeout of 48 seconds at the latest) and every sleep ends, so a
\* step that can be taken is taken.
SpecClient == InitClient /\ [][NextClient]_vars /\ WF_vars(NextClient)

\* ------------------------------------- a worker invoked on a finished row

\* process_individual_translation is invoked again, on a translation that is
\* already complete (the task takes any translation id).
RerunStart(t) ==
    /\ rerun.id = 0
    /\ t \in DOMAIN translations
    /\ translations[t].status = "complete"
    /\ rerun' = [id |-> t, before |-> translations[t], worker |-> StartedWorker(t)]
    /\ UNCHANGED << store_vars, chunker_vars, side_vars >>

RerunChunkReturn(c, answer) ==
    /\ rerun.worker.state = "running"
    /\ c \in 1..Len(rerun.worker.calls)
    /\ rerun.worker.calls[c].st = "inflight"
    /\ rerun' = [rerun EXCEPT !.worker = CallReturned(rerun.worker, c, answer)]
    /\ UNCHANGED << store_vars, chunker_vars, side_vars >>

RerunChunkRaise(c) ==
    /\ rerun.worker.state = "running"
    /\ c \in 1..Len(rerun.worker.calls)
    /\ rerun.worker.calls[c].st = "inflight"
    /\ rerun' = [rerun EXCEPT !.worker = CallRaised(rerun.worker, c)]
    /\ UNCHANGED << store_vars, chunker_vars, side_vars >>

RerunComplete ==
    /\ rerun.worker.state = "running"
    /\ AllEnded(rerun.worker)
    /\ ~AnyRaised(rerun.worker)
    /\ translations' = update_translation_fields(rerun.id, "complete",
                                                 translated_text(rerun.worker))
    /\ translation_writes' = [translation_writes EXCEPT ![rerun.id] = @ + 1]
    /\ rerun' = [rerun EXCEPT !.worker.state = "SUCCESS"]
    /\ UNCHANGED << texts, requests, process_task, chords, workers,
                    text_writes, chunker_vars, side_vars >>

RerunFail ==
    /\ rerun.worker.state = "running"
    /\ AllEnded(rerun.worker)
    /\ AnyRaised(rerun.worker)
    /\ rerun' = [rerun EXCEPT !.worker.state = "FAILURE"]
    /\ UNCHANGED << store_vars, chunker_vars, side_vars >>

\* The run of one request, and one further invocation of a worker.
NextRerun ==
    \/ NextOneJob
    \/ \E t \in TranslationIds : RerunStart(t)
    \/ \E c \in 1..MaxChunks, answer \in 1..NumAnswers : RerunChunkReturn(c, answer)
    \/ \E c \in 1..MaxChunks : RerunChunkRaise(c)
    \/ RerunComplete
    \/ RerunFail

SpecRerun == Init /\ [][NextRerun]_vars

\* The run of one request under fair scheduling: the tasks are run by Celery
\* workers and the calls by executor threads, so a step that can be taken is
\* taken.
FairSpec == Init /\ [][NextOneJob]_vars /\ WF_vars(NextOneJob)

\* ----------------------------------------------------------------- claims

\* The translations (Sub-jobs) of a text (Job).
SubJobs(j) == {t \in DOMAIN translations : translations[t].text_id = j}

\* The contents a complete translation of text j into `language` may hold:
\* the translations of ALL chunks of the text, whatever the service answered
\* for each, joined by single spaces in the order of the chunks.
FullTranslations(j, language) ==
    LET chunks == split_text_into_sentence_groups(texts[j].text) IN
    {Join([c \in 1..Len(chunks) |-> translate(chunks[c], language, answers[c])]) :
        answers \in [1..Len(chunks) -> 1..NumAnswers]}

\* C1: fan-in completeness.  In every reachable state, a Job whose status
\* is "completed" has no Sub-job whose status is "pending": the write of
\* "completed" never happens while a worker of the Job has not yet written
\* its Sub-job.
C1_FanInCompleteness ==
    \A j \in DOMAIN texts :
        texts[j].status = "completed"
            => \A t \in SubJobs(j) : translations[t].status # "pending"

\* C1 witness: a Job of two Sub-jobs is completed while a second Job exists.
C1_Witness ==
    \E j \in DOMAIN texts :
        /\ texts[j].status = "completed"
        /\ Cardinality(SubJobs(j)) = 2
        /\ Len(texts) = 2

\* C3: Job state machine.  A Job's status is always "pending" or
\* "completed"; a Job is created "pending"; a step changes the status of a
\* Job only from "pending" to "completed"; the status is written at most
\* once per Job, and a completed Job keeps its status.
C3_JobStatusOK ==
    \A j \in DOMAIN texts :
        /\ texts[j].status \in {"pending", "completed"}
        /\ text_writes[j] <= 1
        /\ texts[j].status = "completed" <=> text_writes[j] = 1

C3_JobStep ==
    /\ \A j \in DOMAIN texts :
          /\ j \in DOMAIN texts'
          /\ texts'[j].status # texts[j].status
                => texts[j].status = "pending" /\ texts'[j].status = "completed"
          /\ texts[j].status = "completed" => texts'[j].status = "completed"
    /\ \A j \in DOMAIN texts' \ DOMAIN texts : texts'[j].status = "pending"

C3_JobStateMachine == [](C3_JobStatusOK) /\ [][C3_JobStep]_vars

\* C3 witness: a Job has made its one transition, after every call of its
\* Sub-job's worker returned.
C3_Witness ==
    \E j \in DOMAIN texts :
        /\ texts[j].status = "completed"
        /\ text_writes[j] = 1
        /\ SubJobs(j) # {}

C5_AggregationOrder ==
    \A t \in DOMAIN translations :
        workers[t].state = "SUCCESS" =>
            LET w == workers[t]
                chunks == split_text_into_sentence_groups(
                              texts[translations[t].text_id].text)
            IN /\ Len(w.calls) = Len(chunks)
               /\ \A c \in 1..Len(chunks) :
                     \E answer \in 1..NumAnswers :
                        w.calls[c].result =
                            translate(chunks[c], translations[t].language, answer)
               /\ translations[t].translated_content =
                     Join([c \in 1..Len(chunks) |-> w.calls[c].result])

\* C5 witness: the second chunk's call ended before the first chunk's, and
\* the worker wrote.
C5_Witness ==
    \E t \in DOMAIN translations :
        /\ workers[t].state = "SUCCESS"
        /\ workers[t].order = << 2, 1 >>
        /\ translations[t].status = "complete"

\* The other Sub-jobs of the Job of Sub-job t.
Siblings(t) == SubJobs(translations[t].text_id) \ {t}

C2_EventualCompletion ==
    \A j \in TextIds :
        (process_task[j] = "queued")
            ~> (j \in DOMAIN texts /\ texts[j].status = "completed")

\* C6: explicit Sub-job failure.  Once the orchestration of a Job has ended,
\* a Sub-job whose worker failed (a chunk call raised) holds an explicit
\* failed status: it is neither "pending" nor "complete".
C6_ExplicitFailure ==
    \A t \in DOMAIN translations :
        (/\ workers[t].state = "FAILURE"
         /\ chords[translations[t].text_id].state \in {"called", "failed"})
            => translations[t].status \notin {"pending", "complete"}

\* C8: idempotent terminal state.  When a worker invoked on a Sub-job that
\* was already complete has ended, the Sub-job's translated_content is what
\* it was before the invocation and its status is still "complete".
C8_IdempotentTerminalState ==
    rerun.worker.state \in {"SUCCESS", "FAILURE"} =>
        /\ translations[rerun.id].translated_content = rerun.before.translated_content
        /\ translations[rerun.id].status = "complete"

\* The ceiling of n / GroupLimit.
CeilGroups(n) == (n + GroupLimit - 1) \div GroupLimit

Min(a, b) == IF a < b THEN a ELSE b

\* C9: chunk size invariant.  For a non-empty sentence sequence of n
\* sentences the chunker returns ceil(n / 20) chunks; every chunk but the
\* last is made of exactly 20 sentences, the last of 1 to 20; no chunk is
\* empty.
C9_ChunkSizes ==
    (sentence_groups # NotRun /\ Len(sentences) > 0) =>
        LET n == Len(sentences)
            m == Len(sentence_groups)
        IN /\ m = CeilGroups(n)
           /\ Len(group_sizes) = m
           /\ \A g \in 1..(m - 1) : group_sizes[g] = GroupLimit
           /\ group_sizes[m] >= 1 /\ group_sizes[m] <= GroupLimit
           /\ \A g \in 1..m : sentence_groups[g] # << >>

\* C9 witness: 45 sentences gave chunks of 20, 20 and 5 sentences.
C9_Witness ==
    /\ Len(sentences) = 45
    /\ sentence_groups # NotRun
    /\ group_sizes = << 20, 20, 5 >>

\* The sentences at the input positions of chunk g (counted from 1).
SentencesOfChunk(g) ==
    SubSeq(sentences, (g - 1) * GroupLimit + 1, Min(g * GroupLimit, Len(sentences)))

\* Every chunk is the single-space join of the sentences at its positions,
\* and the chunks cover every position.
ChunksByPosition ==
    /\ Len(sentence_groups) = CeilGroups(Len(sentences))
    /\ \A g \in 1..Len(sentence_groups) :
          sentence_groups[g] = Join(SentencesOfChunk(g))

\* Joining the chunks in order and splitting on the separator gives back the
\* sentence sequence.
RoundTrip == Split(Join(sentence_groups)) = sentences

\* No sentence is empty or holds the separator.
PlainSentences ==
    \A k \in 1..Len(sentences) :
        /\ sentences[k] # << >>
        /\ \A p \in 1..Len(sentences[k]) : sentences[k][p] # SPACE

\* C10 as claimed: chunk order invariant (round trip).  For any input
\* sentence sequence, the chunks joined in order and split on the single
\* space reproduce the sequence, and chunk i holds exactly the sentences at
\* positions [i*limit, i*limit+limit).
C10_RoundTripAnyInput ==
    sentence_groups # NotRun => RoundTrip /\ ChunksByPosition

\* C10 as amended: for any input, chunk i is the single-space join of the
\* sentences at positions [i*limit, i*limit+limit) and the chunks cover the
\* input; the round trip holds for a non-empty input none of whose sentences
\* is empty or contains a space.
C10_RoundTripPlainInput ==
    sentence_groups # NotRun =>
        /\ ChunksByPosition
        /\ (Len(sentences) > 0 /\ PlainSentences) => RoundTrip

\* C10 witness: 45 sentences without a space were split into three chunks
\* and the round trip gives them back.
C10_Witness ==
    /\ sentence_groups # NotRun
    /\ Len(sentences) = 45
    /\ PlainSentences
    /\ Len(sentence_groups) = 3
    /\ RoundTrip

\* The call of query_gpt_async is over: it returned a content, an exception
\* left it, or it ended without a value.
ClientOver == client.pc \in {"returned", "raised", "ended"}

\* The counts of one call of query_gpt_async, in every state of the call.
C11_Counts ==
    /\ client.posts <= Retries
    \* a status error and a timeout take from the same counter
    /\ client.retries = Retries - client.failures
                            + (IF client.last = "other" THEN 1 ELSE 0)
    \* every request but the one in flight or answered has failed
    /\ client.posts = client.failures
                          + (IF client.pc \in {"post", "returned"} THEN 1 ELSE 0)
    \* a sleep after every failed attempt but the one that ends the call
    /\ client.sleeps = client.failures
                           - (IF client.pc \in {"raised", "ended"} THEN 1 ELSE 0)
    /\ client.slept = wait_time
                          * (client.sleeps - (IF client.pc = "sleep" THEN 1 ELSE 0))
    \* a response is returned at once, and nothing follows the end of the call
    /\ client.pc = "returned" => client.result # None
    /\ ClientOver => ~ENABLED NextClient

\* C11: bounded retry.  One call of query_gpt_async sends at most 42
\* requests, whatever the failures are: a status error and a timeout
\* decrement the same counter; the call sleeps after every failed attempt
\* except the last; the first response with a success status is returned
\* with no further request; and the call always ends.
C11_BoundedRetry == [](C11_Counts) /\ <>(ClientOver)

\* C11 witness: 41 attempts failed, each followed by a sleep, and the 42nd
\* request was answered.
C11_Witness ==
    /\ client.pc = "returned"
    /\ client.posts = Retries
    /\ client.failures = Retries - 1
    /\ client.slept = wait_time * (Retries - 1)

\* C12: the outcome of a call of query_gpt_async whose attempts are used up
\* depends only on the kind of the last failed attempt: after a status
\* error the exception is raised to the caller, after a timeout the call
\* ends normally and returns no value; and a call ends without a value in
\* no other way.
C12_TerminalOutcome ==
    /\ (client.pc # "none" /\ client.retries = 0) =>
          /\ client.last \in {"status", "timeout"}
          /\ client.last = "status" => client.pc = "raised"
          /\ client.last = "timeout" => client.pc = "ended" /\ client.result = None
    /\ client.pc = "ended" => client.retries = 0 /\ client.last = "timeout"
    /\ (client.pc = "raised" /\ client.last = "status") => client.retries = 0

\* C12 witness: the 42nd attempt timed out and the call ended with no value.
C12_Witness ==
    /\ client.pc = "ended"
    /\ client.last = "timeout"
    /\ client.posts = Retries
    /\ client.result = None

\* The Sub-jobs of the request in slot r so far, in creation order.
CreatedFor(r) == FilterIds(requests[r].text_id, 1)

\* C13: submit.  A request creates one Job with the given text and status
\* "pending" and one Sub-job per entry of `languages`, in the order of the
\* entries, each with the Job's id, the entry's language and status
\* "pending"; every one of them is committed before process_translation is
\* sent, so the header of the Job's chord holds every Sub-job of the Job.
C13_Submit ==
    \A r \in 1..MaxJobs :
        LET req == requests[r]
            j == req.text_id
        IN req.pc # "idle" =>
            /\ j \in DOMAIN texts
            /\ \A q \in 1..MaxJobs : (q # r /\ requests[q].pc # "idle")
                                          => requests[q].text_id # j
            /\ texts[j].text = req.text
            /\ process_task[j] = "none" => texts[j].status = "pending"
            /\ Len(CreatedFor(r)) = req.next - 1
            /\ \A k \in 1..Len(CreatedFor(r)) :
                  LET row == translations[CreatedFor(r)[k]] IN
                  /\ row.language = req.languages[k]
                  /\ row.text_id = j
                  /\ process_task[j] = "none" =>
                        row.status = "pending" /\ row.translated_content = None
            /\ process_task[j] # "none" =>
                  req.pc = "done" /\ Len(CreatedFor(r)) = Len(req.languages)
            /\ chords[j].state # "none" =>
                  /\ Len(chords[j].header) = Len(req.languages)
                  /\ {chords[j].header[k] : k \in 1..Len(chords[j].header)}
                        = SubJobs(j)

\* C13 witness: the chord of a Job of two languages was sent with both
\* Sub-jobs while the rows of the other request were still being created.
C13_Witness ==
    \E r, q \in 1..MaxJobs :
        /\ requests[r].pc = "done"
        /\ Len(requests[r].languages) = 2
        /\ chords[requests[r].text_id].state = "sent"
        /\ Len(chords[requests[r].text_id].header) = 2
        /\ requests[q].pc = "creating"
        /\ requests[q].next = 2

\* The translations of a GET answer, as the set of its entries.
PollEntries(answer) ==
    {answer.translations[k] : k \in 1..Len(answer.translations)}

\* A step answers a GET request.
C14_PollStep ==
    poll' # poll =>
        LET j == poll'.task_id IN
        /\ UNCHANGED store_vars
        /\ j \in DOMAIN texts =>
              /\ poll'.status = "in progress" <=> texts[j].status = "pending"
              /\ texts[j].status # "pending" =>
                    /\ poll'.status = "result"
                    /\ poll'.id = j
                    /\ poll'.text = texts[j].text
                    /\ Len(poll'.translations) = Cardinality(SubJobs(j))
                    /\ PollEntries(poll') = {TranslationOut(t) : t \in SubJobs(j)}

\* C14: poll.  For an existing Job, GET /translate/{task_id} answers
\* {"status": "in progress"} exactly when the Job's status is "pending";
\* otherwise it answers with the Job's id, its text and one entry (language,
\* status, content) for every Sub-job of that Job and for no other; and the
\* request changes no record.
C14_Poll == [][C14_PollStep]_vars

\* C14 witness: a GET was answered with the two translations of a completed
\* Job while the other Job has a translation row too.
C14_Witness ==
    /\ poll.status = "result"
    /\ Len(poll.translations) = 2
    /\ Len(translations) > 2
    /\ \A k \in 1..2 : poll.translations[k].status = "complete"

\* The tasks of chord j, as a set.
HeaderTasks(j) == {chords[j].header[k] : k \in 1..Len(chords[j].header)}

\* No translation has two header tasks: not twice in one chord, not in two
\* chords.
C15_OneWorkerPerRow ==
    /\ \A j \in TextIds : Cardinality(HeaderTasks(j)) = Len(chords[j].header)
    /\ \A i, j \in TextIds : i # j => HeaderTasks(i) \cap HeaderTasks(j) = {}

\* A step that changes a translation row is the writing step of the header
\* task of that row and changes no other row; a step that changes a text row
\* is the step of the body of that text's chord and changes the status only.
C15_WriteStep ==
    /\ \A t \in DOMAIN translations :
          translations'[t] # translations[t] =>
              /\ workers[t].state = "running"
              /\ workers'[t].state = "SUCCESS"
              /\ t \in HeaderTasks(translations[t].text_id)
              /\ \A u \in DOMAIN translations \ {t} :
                    translations'[u] = translations[u] /\ workers'[u] = workers[u]
              /\ texts' = texts
    /\ \A j \in DOMAIN texts :
          texts'[j] # texts[j] =>
              /\ chords[j].state = "sent"
              /\ chords'[j].state = "called"
              /\ texts' = [texts EXCEPT ![j].status = texts'[j].status]
              /\ translations' = translations
              /\ workers' = workers

\* C15: single writer.  In every interleaving, a Sub-job record is written
\* only by the worker dispatched for it and a Job record only by
\* update_task_status, the finalization of its own chord; no record has two
\* workers, and no step writes two records.
C15_SingleWriter == [](C15_OneWorkerPerRow) /\ [][C15_WriteStep]_vars

\* C15 witness: of two workers of one Job that ran at the same time, one
\* has written its record and the other, still running, has not.
C15_Witness ==
    \E t, u \in DOMAIN translations :
        /\ t # u
        /\ translations[t].text_id = translations[u].text_id
        /\ workers[t].state = "SUCCESS"
        /\ translation_writes[t] = 1
        /\ workers[u].state = "running"
        /\ workers[u].order # << >>
        /\ translations[u].status = "pending"

\* The Jobs whose POST /translate request has returned.
Submitted == {requests[r].text_id : r \in {q \in 1..MaxJobs : requests[q].pc = "done"}}

\* A step leaves the Sub-job set, the languages, the job ids and the text of
\* every submitted Job as they are; and a step of a task (no step of a
\* request handler) creates no row and changes no such field of any row.
C16_FrameStep ==
    /\ \A j \in Submitted :
          /\ {t \in DOMAIN translations' : translations'[t].text_id = j} = SubJobs(j)
          /\ \A t \in SubJobs(j) : translations'[t].language = translations[t].language
          /\ texts'[j].text = texts[j].text
    /\ requests' = requests =>
          /\ DOMAIN translations' = DOMAIN translations
          /\ DOMAIN texts' = DOMAIN texts
          /\ \A t \in DOMAIN translations :
                /\ translations'[t].language = translations[t].language
                /\ translations'[t].text_id = translations[t].text_id
          /\ \A j \in DOMAIN texts : texts'[j].text = texts[j].text

\* C16: frame of orchestration.  After the request has returned, no step of
\* process_translation, of a worker or of update_task_status adds or removes
\* a Sub-job, changes a Sub-job's language or job id, or changes the Job's
\* text: only a Sub-job's status and translated_content and the Job's status
\* change.
C16_Frame == [][C16_FrameStep]_vars

\* C16 witness: a Job is completed, with a written Sub-job and its text as
\* submitted, while the other request is still creating rows.
C16_Witness ==
    \E r, q \in 1..MaxJobs :
        LET j == requests[r].text_id IN
        /\ requests[r].pc = "done"
        /\ texts[j].status = "completed"
        /\ texts[j].text = requests[r].text
        /\ texts[j].text # << >>
        /\ \E t \in SubJobs(j) : translations[t].translated_content # None
        /\ requests[q].pc = "creating"
        /\ requests[q].next > 1

\* A step is a call of get_translations_for_text: the list holds every
\* Sub-job of the Job once and no other, in the order of creation (the ids
\* are given in that order).
C17_ListStep ==
    listed' # listed =>
        LET j == listed'.text_id
            result == listed'.result
        IN /\ {result[k] : k \in 1..Len(result)} = SubJobs(j)
           /\ Len(result) = Cardinality(SubJobs(j))
           /\ \A a, b \in 1..Len(result) : a < b => result[a] < result[b]

\* C17: listSubJobs.  get_translations_for_text(jobId) returns exactly the
\* Sub-jobs whose job id is jobId, none of another Job and none missing, as a
\* sequence in creation order.
C17_ListSubJobs == [][C17_ListStep]_vars

\* Every worker dispatched for Job j has finished.
AllWorkersFinished(j) ==
    \A t \in HeaderTasks(j) : workers[t].state \in {"SUCCESS", "FAILURE"}

C19_ExactlyOneDispatch ==
    /\ \A j \in TextIds :
          chords[j].state # "none" =>
              /\ HeaderTasks(j) = SubJobs(j)
              /\ Len(chords[j].header) = Cardinality(SubJobs(j))
    /\ \A t \in TranslationIds :
          /\ workers[t].state # "none" =>
                /\ t \in DOMAIN translations
                /\ t \in HeaderTasks(translations[t].text_id)
          /\ workers[t].state = "queued" => ENABLED WorkerStart(t)

\* C19 witness: the two workers of a Job of two Sub-jobs are running at the
\* same time, neither having ended a call.
C19_Witness ==
    \E j \in TextIds :
        /\ Cardinality(SubJobs(j)) = 2
        /\ chords[j].state = "sent"
        /\ \A t \in SubJobs(j) :
              /\ workers[t].state = "running"
              /\ workers[t].calls # << >>
              /\ workers[t].order = << >>

\* The text of the Job of translation row t, as a sentence sequence.
SentencesOf(t) == Sents(texts[translations[t].text_id].text)

\* C20: empty text and short text.  For a text of no sentence the chunker
\* returns no chunk (not one empty chunk): the worker makes no translation
\* call, cannot fail, can end at once, and ends with the row `complete` and
\* the empty string (not None) as translated_content.  For a text of 1 to
\* GroupLimit - 1 sentences the chunker returns exactly one chunk.
C20_EmptyText ==
    \A t \in TranslationIds :
        workers[t].state \in {"running", "SUCCESS", "FAILURE"} =>
            /\ SentencesOf(t) = << >> =>
                  /\ workers[t].chunks = << >>
                  /\ workers[t].calls = << >>
                  /\ workers[t].state # "FAILURE"
                  /\ workers[t].state = "running" => ENABLED WorkerComplete(t)
                  /\ workers[t].state = "SUCCESS" =>
                        /\ translations[t].status = "complete"
                        /\ translations[t].translated_content = << >>
                        /\ translations[t].translated_content # None
            /\ Len(SentencesOf(t)) \in 1..(GroupLimit - 1) =>
                  /\ Len(workers[t].chunks) = 1
                  /\ Len(workers[t].calls) = 1

\* C20 witness: the worker of a row of an empty text has ended in SUCCESS
\* after its one write, without a call.
C20_Witness ==
    \E t \in TranslationIds :
        /\ workers[t].state = "SUCCESS"
        /\ SentencesOf(t) = << >>
        /\ workers[t].calls = << >>
        /\ translation_writes[t] = 1

\* The chunk translation calls in flight: call c of the running worker of
\* translation t.
InFlightCalls ==
    {tc \in TranslationIds \X (1..MaxChunks) :
        /\ workers[tc[1]].state = "running"
        /\ tc[2] \in 1..Len(workers[tc[1]].calls)
        /\ workers[tc[1]].calls[tc[2]].st = "inflight"}

\* C21: bounded fan-out.  The chunk translation calls in flight at the same
\* time, over all chunks of all running workers, stay within one bound that
\* does not follow what the requests ask for: in a run whose requests ask
\* for up to MaxCalls calls, fewer than MaxCalls calls are in flight at any
\* time.
C21_BoundedFanOut == Cardinality(InFlightCalls) < MaxCalls

\* A chunk translation call of the worker of translation t has raised.
Raised(t) ==
    \E c \in 1..Len(workers[t].calls) : workers[t].calls[c].st = "raised"

\* The Sub-job of a worker one of whose calls raised is as it was when the
\* worker started: never written, pending, without translated_content; and
\* the worker does not end in SUCCESS.
C22_NotWritten ==
    \A t \in TranslationIds :
        Raised(t) =>
            /\ t \in DOMAIN translations
            /\ workers[t].state \in {"running", "FAILURE"}
            /\ translation_writes[t] = 0
            /\ translations[t].status = "pending"
            /\ translations[t].translated_content = None

\* A step of a worker one of whose calls has raised (the raise itself, the
\* end of its other calls, its end) changes no record of the store.
C22_FailedWorkerStep ==
    \A t \in TranslationIds :
        (workers'[t] # workers[t] /\ Raised(t)') =>
            UNCHANGED << texts, translations, text_writes, translation_writes >>

\* C22: state unchanged on worker failure.  If a chunk translation call of
\* a worker raises, the worker writes nothing: its Sub-job keeps the status
\* and the (absent) translated_content it had when the worker started, no
\* step of the worker changes another Sub-job or a Job, and the results of
\* the calls that returned are dropped.
C22_UnchangedOnFailure == [](C22_NotWritten) /\ [][C22_FailedWorkerStep]_vars

\* C22 witness: a worker has failed with one call returned and one raised,
\* its Sub-job still pending without content, while the worker of another
\* Sub-job has written its row.
C22_Witness ==
    \E t, u \in DOMAIN translations :
        /\ t # u
        /\ workers[t].state = "FAILURE"
        /\ \E c \in 1..Len(workers[t].calls) : workers[t].calls[c].st = "returned"
        /\ Raised(t)
        /\ translations[t].status = "pending"
        /\ workers[u].state = "SUCCESS"
        /\ translations[u].status = "complete"

\* C23: poll never exposes unfinished work.  Whenever GET
\* /translate/{task_id} has answered with the result and not with "in
\* progress", every translation listed in the answer has the status
\* "complete" and a translated_content that is not None.
C23_PollFinished ==
    poll.status = "result" =>
        \A k \in 1..Len(poll.translations) :
            /\ poll.translations[k].status = "complete"
            /\ poll.translations[k].translated_content # None

\* C23 witness: a GET was answered with the result of a Job, with a
\* translation listed, while a Sub-job of the other Job, whose worker has
\* failed, is pending.
C23_Witness ==
    /\ poll.status = "result"
    /\ poll.translations # << >>
    /\ \E t \in DOMAIN translations :
          /\ translations[t].text_id # poll.id
          /\ translations[t].status = "pending"
          /\ workers[t].state = "FAILURE"

\* A step is a direct call of update_text_status or of
\* update_translation_fields.
C24_UpdateStep ==
    updated' # updated =>
        LET u == updated' IN
        /\ u.call = "update_text_status" =>
              /\ translations' = translations
              /\ DOMAIN texts' = DOMAIN texts
              /\ u.id \notin DOMAIN texts =>
                    texts' = texts /\ u.value = NoValue
              /\ u.id \in DOMAIN texts =>
                    /\ texts'[u.id].status = u.status
                    /\ texts'[u.id].text = texts[u.id].text
                    /\ \A j \in DOMAIN texts \ {u.id} : texts'[j] = texts[j]
        /\ u.call = "update_translation_fields" =>
              /\ texts' = texts
              /\ DOMAIN translations' = DOMAIN translations
              /\ u.id \notin DOMAIN translations =>
                    translations' = translations /\ u.value = NoValue
              /\ u.id \in DOMAIN translations =>
                    /\ translations'[u.id].status = u.status
                    /\ translations'[u.id].translated_content = u.translated_content
                    /\ translations'[u.id].text_id = translations[u.id].text_id
                    /\ translations'[u.id].language = translations[u.id].language
                    /\ \A t \in DOMAIN translations \ {u.id} :
                          translations'[t] = translations[t]
                    /\ u.value =
                          [id |-> u.id, text_id |-> translations[u.id].text_id,
                           language |-> translations[u.id].language,
                           status |-> u.status,
                           translated_content |-> u.translated_content]

\* C24: update of a missing record is a no-op.  update_text_status and
\* update_translation_fields called with an id that is not in the store
\* return no value and leave every text and every translation as it is;
\* called with an id of the store they change that one row only (its
\* status, and for a translation its translated_content), and
\* update_translation_fields returns the row with the new values.
C24_UpdateMissingNoOp == [][C24_UpdateStep]_vars

\* C24 witness: update_translation_fields was called with an id that is not
\* in a store of three translations, which are pending still.
C24_Witness ==
    /\ updated.call = "update_translation_fields"
    /\ updated.id \notin DOMAIN translations
    /\ updated.id > 0
    /\ updated.value = NoValue
    /\ Len(translations) = 3
    /\ \A t \in DOMAIN translations : translations[t].status = "pending"

====
